---- MODULE Spec2Model ----
(***************************************************************************)
(* Walk-forward backtesting engine (src/ml/core/backtest.py), the model    *)
(* wrapper it drives (src/ml/core/model.py) and the server job that runs   *)
(* it (src/ml/server.py, run_backtest).                                    *)
(*                                                                         *)
(* Time is counted in whole days from the first row.  Prices, capital and  *)
(* every value computed from them are exact rationals <<num, den>> in      *)
(* lowest terms with den > 0.  Probabilities are in tenths, regression     *)
(* predictions in thousandths.                                             *)
(***************************************************************************)
EXTENDS Integers, Sequences, FiniteSets, TLC

\* ---------------------------------------------------------------- bounds
MaxDay == 14         \* the last timestamp of the longest input table
FullTrainWindow == 10 \* days of dense rows that make a full train slice
MaxTestWindow == 2   \* the longest test window, in days
MaxFoldNum == 15     \* cap on loop iterations (the loop need not terminate)
DenseRows == 10      \* rows on a densely sampled day
SparseRows == 9      \* rows on a sparsely sampled day

\* ------------------------------------------------------ program constants
InitialCapital == 10000
MinTrainRows == 100
MinTestRows == 10
BpsScale == 10000
ProbaOne == 10       \* probability 1.0, in tenths
BuyThresholdDefault == 6
SellThresholdDefault == 4
RegBuyBound == 10    \* 0.01, in thousandths
RegSellBound == -5   \* -0.005, in thousandths

None == "None"

\* self.equity_curve = None: no DataFrame.  A DataFrame run() builds has at
\* least one row, so the empty sequence stands for no other value.
NoCurve == <<>>

VARIABLES
    \* WalkForwardBacktest.__init__ arguments and fields
    model_type, is_fitted, train_window, test_window, online_learning,
    fees_bps, slippage_bps, folds, trades, equity_curve,
    \* run() arguments and locals
    df, buy_threshold, sell_threshold, pc, start_date, end_date,
    current_date, fold_num, capital, position, entry_price, equity_records,
    results,
    \* server job registry entry of this backtest
    job_status,
    \* history: the model calls made, the loop iterations taken and the
    \* signal fed to the simulator with each test row
    calls, sched, signal_log,
    \* the probability matrix handed to _generate_signals_classification
    \* where the signal generator is run on its own (inside run() it is the
    \* value bound to y on the way to signal_log)
    proba_input,
    \* environment: a request to stop the run early has been made
    stop_requested,
    \* MLModel fields that run() reads or writes only through the model's
    \* methods; they are followed where those methods are called directly
    model_task, scaler, feature_names,
    \* history: the reports returned by earlier run() calls on this engine
    earlier_runs,
    \* ConnectionManager fields (websocket/manager.py): the connected users
    \* (keys of the dict) and the two subscription dicts
    active_connections, user_channels, channel_subscribers

vars == <<model_type, is_fitted, train_window, test_window, online_learning,
          fees_bps, slippage_bps, folds, trades, equity_curve,
          df, buy_threshold, sell_threshold, pc, start_date, end_date,
          current_date, fold_num, capital, position, entry_price,
          equity_records, results, job_status, calls, sched,
          signal_log, proba_input, stop_requested, model_task, scaler,
          feature_names, earlier_runs, active_connections, user_channels,
          channel_subscribers>>

\* What no statement of run() or run_backtest assigns.
adapter == <<model_task, scaler, feature_names>>
sockets == <<active_connections, user_channels, channel_subscribers>>
aside == <<proba_input, stop_requested, adapter, earlier_runs, sockets>>

\* ------------------------------------------------------ exact arithmetic
Abs(x) == IF x < 0 THEN -x ELSE x

RECURSIVE GCD(_, _)
GCD(a, b) == IF b = 0 THEN a ELSE GCD(b, a % b)

Norm(n, d) ==
    LET g == GCD(Abs(n), Abs(d))
        s == IF d < 0 THEN -1 ELSE 1
    IN  <<s * (n \div g), s * (d \div g)>>

RInt(n) == <<n, 1>>
RZero == RInt(0)
ROne == RInt(1)
RAdd(a, b) ==
    LET g == GCD(a[2], b[2])
    IN  Norm(a[1] * (b[2] \div g) + b[1] * (a[2] \div g), (a[2] \div g) * b[2])
RNegate(a) == <<-a[1], a[2]>>
RSub(a, b) == RAdd(a, RNegate(b))
RMul(a, b) ==
    LET x == Norm(a[1], b[2])
        y == Norm(b[1], a[2])
    IN  Norm(x[1] * y[1], x[2] * y[2])
RDiv(a, b) == RMul(a, Norm(b[2], b[1]))
RLt(a, b) == a[1] * b[2] < b[1] * a[2]

\* Variant: zero counts as positive.
RPos_or_zero(a) == a[1] >= 0

RPos(a) == a[1] > 0
RNeg(a) == a[1] < 0

\* ------------------------------------------------------------ the model
ModelTypes == {"gbc", "sgdr"}

task == IF model_type \in {"gbc", "rfc", "sgdc"}
        THEN "classification" ELSE "regression"

supports_partial_fit == model_type \in {"sgdc", "sgdr"}

\* ------------------------------------------------------- the input table
PricePatterns == {"flat", "rising", "zigzag"}

ClosePrice(pattern, d) ==
    CASE pattern = "flat" -> 2
      [] pattern = "rising" -> d + 1
      [] pattern = "zigzag" -> 1 + 2 * (d % 2)

\* One table per choice of last day, sparsely sampled days and price shape:
\* day -> [n |-> rows on that day, close |-> their close price].
InputTables ==
    { [d \in 0..e |->
          [n |-> IF d \in sp THEN SparseRows ELSE DenseRows,
           close |-> ClosePrice(pat, d)]] :
        e \in {MaxDay - 1, MaxDay},
        sp \in {{}} \cup {{d} : d \in {0, FullTrainWindow + 1, FullTrainWindow + 2}},
        pat \in PricePatterns }

RECURSIVE RowsFrom(_, _, _)
RowsFrom(table, d, last) ==
    IF d > last THEN <<>>
    ELSE [i \in 1..table[d].n |-> [timestamp |-> d, close |-> table[d].close]]
         \o RowsFrom(table, d + 1, last)

\* df.sort_values("timestamp").reset_index(drop=True)
sorted_df ==
    LET days == DOMAIN df
        first == CHOOSE d \in days : \A x \in days : d <= x
        last == CHOOSE d \in days : \A x \in days : d >= x
    IN  RowsFrom(df, first, last)

min_timestamp == CHOOSE d \in DOMAIN df : \A x \in DOMAIN df : d <= x
max_timestamp == CHOOSE d \in DOMAIN df : \A x \in DOMAIN df : d >= x

\* Variant: the upper bound of the window is taken inclusive.
TimeSlice_inclusive(lo, hi) ==
    LET InWindow(r) == r.timestamp >= lo /\ r.timestamp <= hi
    IN  SelectSeq(sorted_df, InWindow)

\* df[(df["timestamp"] >= lo) & (df["timestamp"] < hi)] on the sorted
\* table: the rows of the days from lo up to but not including hi, in order.
TimeSlice(lo, hi) ==
    RowsFrom(df, IF lo > min_timestamp THEN lo ELSE min_timestamp,
                 IF hi - 1 < max_timestamp THEN hi - 1 ELSE max_timestamp)

\* ------------------------------------------------------ signal generator
\* Model outputs offered for one test day (every row of a day has the same
\* features, hence the same output): rows of a 3-column and of a 2-column
\* probability matrix, and regression predictions.
ProbaRows3 == {<<1, 1, 8>>, <<8, 1, 1>>, <<0, 10, 0>>}
ProbaRows2 == {<<2, 8>>, <<8, 2>>, <<5, 5>>}
PredValues == {20, -10, 0}

ModelOutputs(days) ==
    IF task = "classification"
    THEN [days -> ProbaRows3] \cup [days -> ProbaRows2]
    ELSE [days -> PredValues]

\* Variant: the BUY test reads the middle column of a 3-column matrix.
generate_signals_classification_middle(y_proba, buy, sell) ==
    [i \in 1..Len(y_proba) |->
        IF Len(y_proba[i]) = 3
        THEN IF y_proba[i][1] >= ProbaOne - sell THEN -1
             ELSE IF y_proba[i][2] >= buy THEN 1 ELSE 0
        ELSE IF y_proba[i][2] <= sell THEN -1
             ELSE IF y_proba[i][2] >= buy THEN 1 ELSE 0]

\* Variant: the SELL test of a 2-column matrix is strict.
generate_signals_classification_below(y_proba, buy, sell) ==
    [i \in 1..Len(y_proba) |->
        IF Len(y_proba[i]) = 3
        THEN IF y_proba[i][1] >= ProbaOne - sell THEN -1
             ELSE IF y_proba[i][3] >= buy THEN 1 ELSE 0
        ELSE IF y_proba[i][2] < sell THEN -1
             ELSE IF y_proba[i][2] >= buy THEN 1 ELSE 0]

\* The later assignment of the source wins: -1 is written after 1.
generate_signals_classification(y_proba, buy, sell) ==
    [i \in 1..Len(y_proba) |->
        IF Len(y_proba[i]) = 3
        THEN IF y_proba[i][1] >= ProbaOne - sell THEN -1
             ELSE IF y_proba[i][3] >= buy THEN 1 ELSE 0
        ELSE IF y_proba[i][2] <= sell THEN -1
             ELSE IF y_proba[i][2] >= buy THEN 1 ELSE 0]

generate_signals_regression(y_pred) ==
    [i \in 1..Len(y_pred) |->
        IF y_pred[i] <= RegSellBound THEN -1
        ELSE IF y_pred[i] >= RegBuyBound THEN 1 ELSE 0]

\* y_pred / y_proba of the test rows and the signals run() derives from them.
signals_of(out, test_rows) ==
    LET y == [i \in 1..Len(test_rows) |-> out[test_rows[i].timestamp]]
    IN  IF task = "classification"
        THEN generate_signals_classification(y, buy_threshold, sell_threshold)
        ELSE generate_signals_regression(y)

\* ------------------------------------------------------- trade simulator
total_cost_bps == fees_bps + slippage_bps

\* Variant: a BUY signal is executed whatever the position.
buy_applies_always(signal, pos) == signal = 1

buy_applies(signal, pos) == signal = 1 /\ pos = 0
sell_applies(signal, pos) == signal = -1 /\ pos = 1

entry_price_of(price) == RMul(price, RAdd(ROne, Norm(total_cost_bps, BpsScale)))

\* Variant: the exit leg is loaded with the cost the way the entry leg is.
exit_price_of_loaded(price) == entry_price_of(price)

exit_price_of(price) == RMul(price, RSub(ROne, Norm(total_cost_bps, BpsScale)))

\* Variant: the proceeds of the sale are taken for the profit.
realized_pnl_gross(cap, exit_price, entry) == RMul(cap, RDiv(exit_price, entry))

\* Variant: the price move is taken relative to the exit price.
realized_pnl_per_exit(cap, exit_price, entry) ==
    RMul(cap, RDiv(RSub(exit_price, entry), exit_price))

realized_pnl(cap, exit_price, entry) ==
    RMul(cap, RDiv(RSub(exit_price, entry), entry))

\* Variant: the entry price is recorded whatever the position.
equity_entry_price_kept(pos, entry) == entry

\* "entry_price": float(entry_price) if position == 1 else 0.0
equity_entry_price(pos, entry) == IF pos = 1 THEN entry ELSE RZero

\* One iteration of the row loop: st = [capital, position, entry_price,
\* trades, equity].
trade_row(row, signal, st) ==
    LET price == RInt(row.close)
        traded ==
            IF buy_applies(signal, st.position)
            THEN LET entry == entry_price_of(price)
                 IN  [st EXCEPT !.entry_price = entry, !.position = 1,
                         !.trades = Append(@,
                             [timestamp |-> row.timestamp, action |-> "BUY",
                              price |-> price, cost |-> entry,
                              capital |-> st.capital])]
            ELSE IF sell_applies(signal, st.position)
            THEN LET exit_price == exit_price_of(price)
                     pnl == realized_pnl(st.capital, exit_price, st.entry_price)
                 IN  [st EXCEPT !.capital = RAdd(st.capital, pnl),
                         !.position = 0,
                         !.trades = Append(@,
                             [timestamp |-> row.timestamp, action |-> "SELL",
                              price |-> price, exit_price |-> exit_price,
                              pnl |-> pnl,
                              capital |-> RAdd(st.capital, pnl)])]
            ELSE st
        current_value ==
            IF traded.position = 1
            THEN RAdd(traded.capital,
                      realized_pnl(traded.capital, price, traded.entry_price))
            ELSE traded.capital
    IN  [traded EXCEPT !.equity = Append(@,
            [timestamp |-> row.timestamp, capital |-> traded.capital,
             position |-> traded.position,
             entry_price |-> equity_entry_price(traded.position,
                                                traded.entry_price),
             current_price |-> price, equity |-> current_value])]

\* The row loop: one equity point per row processed, so the next row is
\* the one after the equity points recorded so far.
RECURSIVE trade_rows(_, _, _)
trade_rows(test_rows, signals, st) ==
    IF Len(st.equity) >= Len(test_rows) THEN st
    ELSE trade_rows(test_rows, signals,
                    trade_row(test_rows[Len(st.equity) + 1],
                              signals[Len(st.equity) + 1], st))

simulate_trading(test_rows, signals, initial_capital, initial_position, initial_entry_price) ==
    trade_rows(test_rows, signals,
               [capital |-> initial_capital, position |-> initial_position,
                entry_price |-> initial_entry_price,
                trades |-> <<>>, equity |-> <<>>])

\* ------------------------------------------------------ aggregate report
IsSell(t) == t.action = "SELL"

\* np.maximum.accumulate(equity), (equity - running_max) / running_max and
\* its minimum, in one pass over the points from the i-th on.
RECURSIVE drawdown_min(_, _, _, _)

\* Variant: the drop is measured from the first point, not from the peak.
drawdown_min_from_first(curve, i, running_max, lowest) ==
    IF i > Len(curve) THEN lowest
    ELSE LET drawdown == RDiv(RSub(curve[i].equity, running_max), running_max)
         IN  IF RLt(drawdown, lowest)
             THEN drawdown_min(curve, i + 1, running_max, drawdown)
             ELSE drawdown_min(curve, i + 1, running_max, lowest)

drawdown_min(curve, i, running_max, lowest) ==
    IF i > Len(curve) THEN lowest
    ELSE LET m == IF RLt(running_max, curve[i].equity)
                  THEN curve[i].equity ELSE running_max
             drawdown == RDiv(RSub(curve[i].equity, m), m)
         IN  IF RLt(drawdown, lowest)
             THEN drawdown_min(curve, i + 1, m, drawdown)
             ELSE drawdown_min(curve, i + 1, m, lowest)

\* max_drawdown of the report: 0 unless the curve has more than one point.
max_drawdown_of(curve) ==
    IF curve # NoCurve /\ Len(curve) > 1
    THEN drawdown_min(curve, 1, curve[1].equity, RZero)
    ELSE RZero

calculate_overall_metrics(initial_capital, final_capital) ==
    LET sells == SelectSeq(trades', IsSell)
        IsWin(t) == RPos(t.pnl)
        IsLoss(t) == RNeg(t.pnl)
        total_trades == Len(sells)
        winning_trades == Len(SelectSeq(sells, IsWin))
        losing_trades == Len(SelectSeq(sells, IsLoss))
    IN  [initial_capital |-> initial_capital,
         final_capital |-> final_capital,
         total_return |-> RDiv(RSub(final_capital, initial_capital),
                               initial_capital),
         total_trades |-> total_trades,
         winning_trades |-> winning_trades,
         losing_trades |-> losing_trades,
         win_rate |-> IF total_trades > 0
                      THEN Norm(winning_trades, total_trades) ELSE RZero,
         max_drawdown |-> max_drawdown_of(equity_curve'),
         folds |-> folds']

\* ------------------------------------------------------- run(): the loop
train_start == current_date - train_window
train_end == current_date
test_start == current_date
test_end == current_date + test_window

train_data == TimeSlice(train_start, train_end)
test_data == TimeSlice(test_start, test_end)

\* Variant: a test window may start at any date up to the last one.
loop_condition_partial == current_date <= end_date

\* Variant: a test window ending exactly at the last date is not scheduled.
loop_condition_strict == current_date + test_window < end_date

loop_condition == current_date + test_window <= end_date

\* Variant: a fold is skipped only when both slices are too small.
too_few_rows_both ==
    Len(train_data) < MinTrainRows /\ Len(test_data) < MinTestRows

too_few_rows ==
    Len(train_data) < MinTrainRows \/ Len(test_data) < MinTestRows

\* Which model-update call fold number n makes before predicting.
update_call(n) ==
    IF n = 1 \/ ~online_learning THEN "fit"
    ELSE IF supports_partial_fit THEN "partial_fit"
    ELSE "none"

\* A model call: the operation, the fold, the timestamps of the rows it was
\* given and whether it returned (ok) or raised.
Call(op, n, rows, ok) ==
    [op |-> op, fold |-> n,
     days |-> {rows[i].timestamp : i \in 1..Len(rows)}, ok |-> ok]

UpdateCalls(n, ok) ==
    IF update_call(n) = "none" THEN <<>>
    ELSE <<Call(update_call(n), n, train_data, ok)>>

Iteration(n, status, train_samples, test_samples) ==
    [fold |-> n, train_start |-> train_start, train_end |-> train_end,
     test_start |-> test_start, test_end |-> test_end,
     train_samples |-> train_samples, test_samples |-> test_samples,
     status |-> status, capital |-> capital, position |-> position,
     entry_price |-> entry_price]

\* Variant: the capital is carried, an open position is forgotten.
carried_state_flat(fold_equity) ==
    [capital |-> IF Len(fold_equity) > 0
                 THEN fold_equity[Len(fold_equity)].capital ELSE capital,
     position |-> 0, entry_price |-> RZero]

\* Variant: the cost is loaded again into a carried entry price.
carried_state_recosted(fold_equity) ==
    IF Len(fold_equity) > 0
    THEN [capital |-> fold_equity[Len(fold_equity)].capital,
          position |-> fold_equity[Len(fold_equity)].position,
          entry_price |-> entry_price_of(fold_equity[Len(fold_equity)].entry_price)]
    ELSE [capital |-> capital, position |-> position,
          entry_price |-> entry_price]

\* Variant: the state is taken from the first equity point of the fold.
carried_state_first(fold_equity) ==
    IF Len(fold_equity) > 0
    THEN [capital |-> fold_equity[1].capital,
          position |-> fold_equity[1].position,
          entry_price |-> fold_equity[1].entry_price]
    ELSE [capital |-> capital, position |-> position,
          entry_price |-> entry_price]

\* Variant: the capital carried over is the marked-to-market equity.
carried_state_marked(fold_equity) ==
    IF Len(fold_equity) > 0
    THEN [capital |-> fold_equity[Len(fold_equity)].equity,
          position |-> fold_equity[Len(fold_equity)].position,
          entry_price |-> fold_equity[Len(fold_equity)].entry_price]
    ELSE [capital |-> capital, position |-> position,
          entry_price |-> entry_price]

\* The position state the next fold starts from: the last equity point.
carried_state(fold_equity) ==
    IF Len(fold_equity) > 0
    THEN [capital |-> fold_equity[Len(fold_equity)].capital,
          position |-> fold_equity[Len(fold_equity)].position,
          entry_price |-> fold_equity[Len(fold_equity)].entry_price]
    ELSE [capital |-> capital, position |-> position,
          entry_price |-> entry_price]

fold_pnl_of(n, new_capital, fold_equity) ==
    IF n = 1 THEN RSub(new_capital, RInt(InitialCapital))
    ELSE IF Len(fold_equity) > 0
         THEN RSub(fold_equity[Len(fold_equity)].capital, fold_equity[1].capital)
         ELSE RZero

config == <<model_type, train_window, test_window, online_learning, fees_bps,
            slippage_bps, df, buy_threshold, sell_threshold>>

\* fees_bps and slippage_bps offered to the constructor.
CostConfigs == {<<0, 0>>, <<2500, 2500>>}

\* ---------------------------------------------------------------- states
\* ConnectionManager.__init__: three empty dicts.
EmptyDict == <<>>

NoConnections ==
    /\ active_connections = {}
    /\ user_channels = EmptyDict
    /\ channel_subscribers = EmptyDict

\* The model's own fields as __init__ or load left them: the task that goes
\* with the model type, no feature names kept.  scaler is the number of the
\* direct call that last fitted the scaler, 0 for the scaler as built or
\* loaded.
AdapterAsBuilt ==
    /\ model_task = task
    /\ scaler = 0
    /\ feature_names = None

\* The engine as constructed and the table handed to run(), whatever the
\* thresholds.
Constructed ==
    /\ model_type \in ModelTypes
    /\ is_fitted \in BOOLEAN
    /\ train_window \in {0, FullTrainWindow, FullTrainWindow + 1}
    /\ test_window \in 0..MaxTestWindow
    /\ online_learning \in BOOLEAN
    /\ \E cost \in CostConfigs : fees_bps = cost[1] /\ slippage_bps = cost[2]
    /\ folds = <<>>
    /\ trades = <<>>
    /\ equity_curve = NoCurve
    /\ df \in InputTables
    /\ pc = "constructed"
    /\ start_date = None
    /\ end_date = None
    /\ current_date = None
    /\ fold_num = 0
    /\ capital = RInt(InitialCapital)
    /\ position = 0
    /\ entry_price = RZero
    /\ equity_records = <<>>
    /\ results = None
    /\ job_status = "running"
    /\ calls = <<>>
    /\ sched = <<>>
    /\ signal_log = <<>>
    /\ proba_input = <<>>
    /\ stop_requested = FALSE
    /\ AdapterAsBuilt
    /\ earlier_runs = <<>>
    /\ NoConnections

\* run(df) with the default thresholds.
Init ==
    /\ Constructed
    /\ buy_threshold = BuyThresholdDefault
    /\ sell_threshold = SellThresholdDefault

\* run(), up to the loop: sort, fold boundaries, the carried position state.
RunStart ==
    /\ pc = "constructed"
    /\ pc' = "loop"
    /\ start_date' = min_timestamp
    /\ end_date' = max_timestamp
    /\ current_date' = min_timestamp + train_window
    /\ fold_num' = 0
    /\ capital' = RInt(InitialCapital)
    /\ position' = 0
    /\ entry_price' = RZero
    /\ equity_records' = <<>>
    /\ UNCHANGED <<config, aside, is_fitted, folds, trades, equity_curve, results,
                   job_status, calls, sched, signal_log>>

\* A loop iteration whose train or test slice is too small.
FoldSkip ==
    /\ pc = "loop" /\ loop_condition /\ fold_num < MaxFoldNum
    /\ too_few_rows
    /\ fold_num' = fold_num + 1
    /\ current_date' = test_end
    /\ sched' = Append(sched, Iteration(fold_num + 1, "skipped",
                                        Len(train_data), Len(test_data)))
    /\ UNCHANGED <<config, aside, is_fitted, folds, trades, equity_curve, pc,
                   start_date, end_date, capital, position, entry_price,
                   equity_records, results, job_status, calls, signal_log>>

\* A loop iteration that trains or updates, predicts, simulates and reports;
\* out is what the model returns for the test rows, by day.
EvaluateFold(train_rows, test_rows, out) ==
    /\ pc = "loop" /\ loop_condition /\ fold_num < MaxFoldNum
    /\ ~too_few_rows
    /\ is_fitted \/ update_call(fold_num + 1) # "none"
    /\ \E signals \in {signals_of(out, test_rows)} :
       \E sim \in {simulate_trading(test_rows, signals, capital, position,
                                    entry_price)} :
       \E next \in {carried_state(sim.equity)} :
           LET n == fold_num + 1
           IN  /\ fold_num' = n
               /\ is_fitted' = TRUE
               /\ calls' = calls \o UpdateCalls(n, TRUE)
                      \o <<Call("predict", n, test_rows, TRUE)>>
                      \o (IF task = "classification"
                          THEN <<Call("predict_proba", n, test_rows, TRUE)>>
                          ELSE <<>>)
               /\ capital' = next.capital
               /\ position' = next.position
               /\ entry_price' = next.entry_price
               /\ equity_records' = equity_records \o sim.equity
               /\ trades' = trades \o sim.trades
               /\ signal_log' = signal_log \o signals
               /\ folds' = Append(folds,
                      [fold |-> n, train_start |-> train_start,
                       train_end |-> train_end, test_start |-> test_start,
                       test_end |-> test_end,
                       train_samples |-> Len(train_rows),
                       test_samples |-> Len(test_rows),
                       trades |-> Len(sim.trades),
                       pnl |-> fold_pnl_of(n, next.capital, sim.equity)])
               /\ sched' = Append(sched,
                      Iteration(n, "evaluated", Len(train_rows), Len(test_rows)))
               /\ current_date' = test_end
    /\ UNCHANGED <<config, aside, equity_curve, pc, start_date, end_date, results,
                   job_status>>

TestDays(test_rows) == {test_rows[i].timestamp : i \in 1..Len(test_rows)}

\* The same, for whatever the model returns.
FoldEvaluate ==
    /\ pc = "loop" /\ loop_condition /\ ~too_few_rows
    /\ \E train_rows \in {train_data}, test_rows \in {test_data} :
       \E out \in ModelOutputs(TestDays(test_rows)) :
           EvaluateFold(train_rows, test_rows, out)

\* A loop iteration in which a model call raises; run() has no handler.
RaisePoints == {"fit", "partial_fit", "predict", "predict_proba"}

FoldRaise ==
    /\ pc = "loop" /\ loop_condition /\ fold_num < MaxFoldNum
    /\ ~too_few_rows
    /\ \E at \in RaisePoints :
        LET n == fold_num + 1
            updated == at \in {"predict", "predict_proba"}
            fitted == is_fitted \/ (updated /\ update_call(n) # "none")
        IN  /\ at \in {"fit", "partial_fit"} => update_call(n) = at
            /\ at = "predict_proba" => task = "classification" /\ fitted
            /\ fold_num' = n
            /\ is_fitted' = fitted
            /\ calls' =
                 IF ~updated THEN calls \o UpdateCalls(n, FALSE)
                 ELSE calls \o UpdateCalls(n, TRUE)
                      \o <<Call("predict", n, test_data, at # "predict")>>
                      \o (IF at = "predict_proba"
                          THEN <<Call("predict_proba", n, test_data, FALSE)>>
                          ELSE <<>>)
            /\ sched' = Append(sched, Iteration(n, "raised",
                                   Len(train_data), Len(test_data)))
    /\ pc' = "raised"
    /\ UNCHANGED <<config, aside, folds, trades, equity_curve, start_date, end_date,
                   current_date, capital, position, entry_price,
                   equity_records, results, job_status, signal_log>>

\* The loop condition fails: equity curve, aggregate report, return.
RunReturn ==
    /\ pc = "loop" /\ ~loop_condition
    /\ equity_curve' = IF equity_records # <<>> THEN equity_records
                       ELSE equity_curve
    /\ UNCHANGED trades
    /\ UNCHANGED folds
    /\ results' = calculate_overall_metrics(RInt(InitialCapital), capital)
    /\ pc' = "returned"
    /\ UNCHANGED <<config, aside, is_fitted, start_date, end_date, current_date,
                   fold_num, capital, position, entry_price, equity_records,
                   job_status, calls, sched, signal_log>>

\* Variant: the job is marked completed whether or not run() raised.
JobComplete_always ==
    /\ job_status = "running" /\ pc \in {"returned", "raised"}
    /\ job_status' = "completed"
    /\ UNCHANGED <<config, aside, is_fitted, folds, trades, equity_curve, pc,
                   start_date, end_date, current_date, fold_num, capital,
                   position, entry_price, equity_records, results, calls,
                   sched, signal_log>>

\* run_backtest after run() returned: artifacts and report saved.
JobComplete ==
    /\ job_status = "running" /\ pc = "returned"
    /\ job_status' = "completed"
    /\ UNCHANGED <<config, aside, is_fitted, folds, trades, equity_curve, pc,
                   start_date, end_date, current_date, fold_num, capital,
                   position, entry_price, equity_records, results, calls,
                   sched, signal_log>>

\* run_backtest's except clause: run() raised, or saving the artifacts, the
\* report or the updated model raised after run() returned.
JobFail ==
    /\ job_status = "running" /\ pc \in {"raised", "returned"}
    /\ job_status' = "failed"
    /\ UNCHANGED <<config, aside, is_fitted, folds, trades, equity_curve, pc,
                   start_date, end_date, current_date, fold_num, capital,
                   position, entry_price, equity_records, results, calls,
                   sched, signal_log>>

Next ==
    \/ RunStart
    \/ FoldSkip
    \/ FoldEvaluate
    \/ FoldRaise
    \/ RunReturn
    \/ JobComplete
    \/ JobFail

Spec == Init /\ [][Next]_vars

\* ------------------------------------------- the signal generator alone
\* An engine on which run() has not been called, for the specifications
\* that call one method of it directly.
Fresh ==
    /\ model_type = "gbc"
    /\ is_fitted = FALSE
    /\ train_window = FullTrainWindow
    /\ test_window = MaxTestWindow
    /\ online_learning = FALSE
    /\ fees_bps = 0
    /\ slippage_bps = 0
    /\ folds = <<>>
    /\ df = [d \in 0..0 |-> [n |-> DenseRows, close |-> ClosePrice("flat", d)]]
    /\ start_date = None
    /\ end_date = None
    /\ current_date = None
    /\ fold_num = 0
    /\ capital = RInt(InitialCapital)
    /\ position = 0
    /\ entry_price = RZero
    /\ equity_records = <<>>
    /\ results = None
    /\ job_status = "running"
    /\ calls = <<>>
    /\ sched = <<>>
    /\ signal_log = <<>>
    /\ stop_requested = FALSE
    /\ AdapterAsBuilt
    /\ earlier_runs = <<>>
    /\ NoConnections

\* Every row of a 3-column and of a 2-column probability matrix, in tenths.
ProbaGrid ==
    {row \in (0..ProbaOne) \X (0..ProbaOne) \X (0..ProbaOne) :
        row[1] + row[2] + row[3] = ProbaOne}
    \cup {<<a, ProbaOne - a>> : a \in 0..ProbaOne}

Thresholds == 0..ProbaOne

\* _generate_signals_classification(y_proba, buy_threshold, sell_threshold)
\* is about to be called with a one-row matrix.
SignalInit ==
    /\ Fresh
    /\ trades = <<>>
    /\ equity_curve = NoCurve
    /\ proba_input \in {<<row>> : row \in ProbaGrid}
    /\ buy_threshold \in Thresholds
    /\ sell_threshold \in Thresholds
    /\ pc = "signals"

GenerateSignals ==
    /\ pc = "signals"
    /\ signal_log' = generate_signals_classification(proba_input, buy_threshold,
                                                     sell_threshold)
    /\ pc' = "signals_done"
    /\ UNCHANGED <<config, aside, is_fitted, folds, trades, equity_curve,
                   start_date, end_date, current_date, fold_num, capital,
                   position, entry_price, equity_records, results, job_status,
                   calls, sched>>

SignalNext == GenerateSignals

SignalSpec == SignalInit /\ [][SignalNext]_vars

\* ------------------------------------------ run() called a second time
\* run() is called again on the same engine with the same table and
\* thresholds once it has returned.  The model gives the same output for
\* the same test day in every call: BUY on even days, SELL on odd days.
MaxRuns == 2

SameOutput(d) ==
    IF task = "classification"
    THEN (IF d % 2 = 0 THEN <<1, 1, 8>> ELSE <<8, 1, 1>>)
    ELSE (IF d % 2 = 0 THEN 20 ELSE -10)

RerunFoldEvaluate ==
    /\ pc = "loop" /\ loop_condition /\ ~too_few_rows
    /\ \E train_rows \in {train_data}, test_rows \in {test_data} :
           EvaluateFold(train_rows, test_rows,
                        [d \in TestDays(test_rows) |-> SameOutput(d)])

\* The next call of run(): its locals start afresh, self.folds, self.trades
\* and self.equity_curve are what the call before left.
RunAgain ==
    /\ pc = "returned"
    /\ Len(earlier_runs) + 1 < MaxRuns
    /\ earlier_runs' = Append(earlier_runs, results)
    /\ pc' = "loop"
    /\ start_date' = min_timestamp
    /\ end_date' = max_timestamp
    /\ current_date' = min_timestamp + train_window
    /\ fold_num' = 0
    /\ capital' = RInt(InitialCapital)
    /\ position' = 0
    /\ entry_price' = RZero
    /\ equity_records' = <<>>
    /\ UNCHANGED <<config, proba_input, stop_requested, adapter, sockets,
                   is_fitted, folds, trades, equity_curve, results,
                   job_status, calls, sched, signal_log>>

RerunNext ==
    \/ RunStart
    \/ FoldSkip
    \/ RerunFoldEvaluate
    \/ FoldRaise
    \/ RunReturn
    \/ RunAgain

RerunSpec == Init /\ [][RerunNext]_vars

\* ------------------------------------------- the websocket manager
\* ConnectionManager: connect, disconnect, subscribe_to_channel and
\* unsubscribe_from_channel called in any order for a few users.
Users == {1, 2}
KnownChannels == {"market_data", "predictions", "signals", "alerts", "portfolio"}
RequestedChannels == {"market_data", "signals", "unknown"}

\* d[k] = v and del d[k] on a dict held as a function on its keys.
DictPut(d, k, v) == [x \in DOMAIN d \cup {k} |-> IF x = k THEN v ELSE d[x]]
DictDel(d, k) == [x \in DOMAIN d \ {k} |-> d[x]]

\* disconnect(user_id) applied to the fields given.
disconnected(u, conns, chans, subs) ==
    [conns |-> conns \ {u},
     chans |-> IF u \in DOMAIN chans THEN DictDel(chans, u) ELSE chans,
     subs |-> IF u \in DOMAIN chans
              THEN [c \in DOMAIN subs |->
                       IF c \in chans[u] THEN subs[c] \ {u} ELSE subs[c]]
              ELSE subs]

\* send_personal_message(message, user_id) applied to the fields given:
\* nothing for a user without a connection, else the send goes through
\* (sent) or raises, and the user is disconnected.
after_send(u, sent, conns, chans, subs) ==
    IF u \in conns /\ ~sent THEN disconnected(u, conns, chans, subs)
    ELSE [conns |-> conns, chans |-> chans, subs |-> subs]

SetSockets(fields) ==
    /\ active_connections' = fields.conns
    /\ user_channels' = fields.chans
    /\ channel_subscribers' = fields.subs
    /\ UNCHANGED <<config, proba_input, stop_requested, adapter, earlier_runs,
                   is_fitted, folds, trades, equity_curve, pc, start_date,
                   end_date, current_date, fold_num, capital, position,
                   entry_price, equity_records, results, job_status, calls,
                   sched, signal_log>>

SocketInit ==
    /\ Fresh
    /\ trades = <<>>
    /\ equity_curve = NoCurve
    /\ proba_input = <<>>
    /\ buy_threshold = BuyThresholdDefault
    /\ sell_threshold = SellThresholdDefault
    /\ pc = "serving"

Connect ==
    /\ pc = "serving"
    /\ \E u \in Users :
          SetSockets([conns |-> active_connections \cup {u},
                      chans |-> DictPut(user_channels, u, {}),
                      subs |-> channel_subscribers])

Disconnect ==
    /\ pc = "serving"
    /\ \E u \in Users :
          SetSockets(disconnected(u, active_connections, user_channels,
                                  channel_subscribers))

SubscribeToChannel ==
    /\ pc = "serving"
    /\ \E u \in Users, channel \in RequestedChannels, sent \in BOOLEAN :
          IF channel \notin KnownChannels
          THEN SetSockets(after_send(u, sent, active_connections,
                                     user_channels, channel_subscribers))
          ELSE \E chans \in {DictPut(user_channels, u,
                                (IF u \in DOMAIN user_channels
                                 THEN user_channels[u] ELSE {})
                                    \cup {channel})},
                  subs \in {DictPut(channel_subscribers, channel,
                                (IF channel \in DOMAIN channel_subscribers
                                 THEN channel_subscribers[channel] ELSE {})
                                    \cup {u})} :
                   SetSockets(after_send(u, sent, active_connections, chans,
                                         subs))

UnsubscribeFromChannel ==
    /\ pc = "serving"
    /\ \E u \in Users, channel \in RequestedChannels, sent \in BOOLEAN :
       \E chans \in {IF u \in DOMAIN user_channels
                     THEN DictPut(user_channels, u,
                                  user_channels[u] \ {channel})
                     ELSE user_channels},
          subs \in {IF channel \in DOMAIN channel_subscribers
                    THEN DictPut(channel_subscribers, channel,
                                 channel_subscribers[channel] \ {u})
                    ELSE channel_subscribers} :
           SetSockets(after_send(u, sent, active_connections, chans, subs))

SocketNext ==
    \/ Connect
    \/ Disconnect
    \/ SubscribeToChannel
    \/ UnsubscribeFromChannel

SocketSpec == SocketInit /\ [][SocketNext]_vars

\* ------------------------------------------------- the model on its own
\* An MLModel is constructed and its methods are called directly, up to
\* MaxModelCalls times.  calls records each call with the fields before
\* and after it.
MaxModelCalls == 3

AllModelTypes == {"gbc", "rfc", "sgdc", "gbr", "sgdr"}
Tasks == {"classification", "regression"}

\* X is a DataFrame (it has columns) or an ndarray.
InputKinds == {"frame", "array"}
FrameColumns == "columns of X"

ModelInit ==
    /\ model_type \in AllModelTypes
    /\ model_task \in Tasks
    /\ is_fitted = FALSE
    /\ scaler = 0
    /\ feature_names = None
    /\ calls = <<>>
    /\ pc = "model"
    /\ train_window = FullTrainWindow
    /\ test_window = MaxTestWindow
    /\ online_learning = FALSE
    /\ fees_bps = 0
    /\ slippage_bps = 0
    /\ folds = <<>>
    /\ trades = <<>>
    /\ equity_curve = NoCurve
    /\ df = [d \in 0..0 |-> [n |-> DenseRows, close |-> ClosePrice("flat", d)]]
    /\ buy_threshold = BuyThresholdDefault
    /\ sell_threshold = SellThresholdDefault
    /\ start_date = None
    /\ end_date = None
    /\ current_date = None
    /\ fold_num = 0
    /\ capital = RInt(InitialCapital)
    /\ position = 0
    /\ entry_price = RZero
    /\ equity_records = <<>>
    /\ results = None
    /\ job_status = "running"
    /\ sched = <<>>
    /\ signal_log = <<>>
    /\ proba_input = <<>>
    /\ stop_requested = FALSE
    /\ earlier_runs = <<>>
    /\ NoConnections

ModelFields == [is_fitted |-> is_fitted, scaler |-> scaler,
                feature_names |-> feature_names]

\* The call returned (ok) or raised, and left the fields as in after.
ModelCall(op, ok, after) ==
    /\ Len(calls) < MaxModelCalls
    /\ calls' = Append(calls, [op |-> op, ok |-> ok, before |-> ModelFields,
                               after |-> after])
    /\ is_fitted' = after.is_fitted
    /\ scaler' = after.scaler
    /\ feature_names' = after.feature_names
    /\ UNCHANGED <<config, proba_input, stop_requested, model_task,
                   earlier_runs, sockets, folds, trades, equity_curve, pc, start_date, end_date,
                   current_date, fold_num, capital, position, entry_price,
                   equity_records, results, job_status, sched, signal_log>>

\* fit(X, y)
ModelFit ==
    /\ pc = "model"
    /\ \E X \in InputKinds :
          ModelCall("fit", TRUE,
                    [is_fitted |-> TRUE, scaler |-> Len(calls) + 1,
                     feature_names |-> IF X = "frame" THEN FrameColumns
                                       ELSE feature_names])

\* Variant: the gradient boosting regressor is let through as well.
partial_fit_allowed_boosted == model_type \in {"sgdc", "sgdr", "gbr"}

\* The test at the head of partial_fit.
partial_fit_allowed == model_type \in {"sgdc", "sgdr"}

\* The first partial_fit of the estimator raises when the task does not go
\* with the estimator: SGDRegressor.partial_fit takes no classes argument,
\* SGDClassifier.partial_fit needs one on its first call.
estimator_update_raises ==
    /\ ~is_fitted
    /\ \/ model_task = "classification" /\ model_type = "sgdr"
       \/ model_task = "regression" /\ model_type = "sgdc"

\* partial_fit(X, y, classes)
ModelPartialFit ==
    /\ pc = "model"
    /\ \E X \in InputKinds :
          IF ~partial_fit_allowed
          THEN ModelCall("partial_fit", FALSE, ModelFields)
          ELSE \E names \in {IF X = "frame" /\ feature_names = None
                             THEN FrameColumns ELSE feature_names},
                  scaled \in {IF ~is_fitted THEN Len(calls) + 1 ELSE scaler} :
                   IF estimator_update_raises
                   THEN ModelCall("partial_fit", FALSE,
                                  [is_fitted |-> is_fitted, scaler |-> scaled,
                                   feature_names |-> names])
                   ELSE ModelCall("partial_fit", TRUE,
                                  [is_fitted |-> TRUE, scaler |-> scaled,
                                   feature_names |-> names])

\* predict(X)
ModelPredict ==
    /\ pc = "model"
    /\ ModelCall("predict", is_fitted, ModelFields)

\* predict_proba(X); a regressor has no predict_proba of its own.
ModelPredictProba ==
    /\ pc = "model"
    /\ ModelCall("predict_proba",
                 /\ model_task = "classification"
                 /\ is_fitted
                 /\ model_type \in {"gbc", "rfc", "sgdc"},
                 ModelFields)

ModelNext ==
    \/ ModelFit
    \/ ModelPartialFit
    \/ ModelPredict
    \/ ModelPredictProba

ModelSpec == ModelInit /\ [][ModelNext]_vars

\* ------------------------------ the signal generator on a binary model
MaxMatrixRows == 2

\* Every row of a 2-column probability matrix, in tenths.
BinaryRows == {<<ProbaOne - a, a>> : a \in 0..ProbaOne}

\* _generate_signals_classification is about to be called with a 2-column
\* matrix of up to MaxMatrixRows rows.
BinaryInit ==
    /\ Fresh
    /\ trades = <<>>
    /\ equity_curve = NoCurve
    /\ proba_input \in UNION {[1..n -> BinaryRows] : n \in 0..MaxMatrixRows}
    /\ buy_threshold \in Thresholds
    /\ sell_threshold \in Thresholds
    /\ pc = "signals"

BinarySpec == BinaryInit /\ [][SignalNext]_vars

\* --------------------------------------- a model that is certain of HOLD
\* predict_proba returns P(class 0) = 0, P(class 1) = 1, P(class 2) = 0 for
\* every test row of every fold; run() is called with thresholds of its
\* caller's choice.
HoldCertain == <<0, ProbaOne, 0>>

HoldInit ==
    /\ Constructed
    /\ model_type = "gbc"
    /\ buy_threshold \in {0, BuyThresholdDefault}
    /\ sell_threshold \in {SellThresholdDefault, ProbaOne}

HoldFoldEvaluate ==
    /\ pc = "loop" /\ loop_condition /\ ~too_few_rows
    /\ \E train_rows \in {train_data}, test_rows \in {test_data} :
           EvaluateFold(train_rows, test_rows,
                        [d \in TestDays(test_rows) |-> HoldCertain])

HoldNext ==
    \/ RunStart
    \/ FoldSkip
    \/ HoldFoldEvaluate
    \/ FoldRaise
    \/ RunReturn
    \/ JobComplete
    \/ JobFail

HoldSpec == HoldInit /\ [][HoldNext]_vars

\* ------------------------------------------ a caller that asks to stop
\* The caller of run() decides, before or during the loop, that the run
\* should stop. run() takes no stop flag or callback and its loop
\* (lines 83-109) reads none, so the decision changes nothing else.
RequestStop ==
    /\ pc \in {"constructed", "loop"}
    /\ ~stop_requested
    /\ stop_requested' = TRUE
    /\ UNCHANGED <<config, proba_input, adapter, earlier_runs, sockets,
                   is_fitted, folds, trades, equity_curve, pc, start_date, end_date, current_date,
                   fold_num, capital, position, entry_price, equity_records,
                   results, job_status, calls, sched, signal_log>>

StopInit ==
    /\ Init
    /\ model_type \in {"gbc", "sgdr"}
    /\ fees_bps = 0

StopNext ==
    \/ Next
    \/ RequestStop

StopSpec == StopInit /\ [][StopNext]_vars

\* ------------------------------------------- the aggregate report alone
\* The trade simulator is run once on a short test slice with one signal
\* per row, and the aggregate report is computed from what it recorded.
MaxRows == 6

RowPrices == {1, 2}
RowSignals == {-1, 0, 1}

\* A test slice and its signals: row i |-> <<close, signal>>.
TestSlices == UNION {[1..n -> RowPrices \X RowSignals] : n \in 0..MaxRows}

MetricsInit ==
    /\ Fresh
    /\ trades = <<>>
    /\ equity_curve = NoCurve
    /\ proba_input = <<>>
    /\ buy_threshold = BuyThresholdDefault
    /\ sell_threshold = SellThresholdDefault
    /\ pc = "simulate"

\* _simulate_trading on the slice, and what run() keeps of its result.
SimulateSlice ==
    /\ pc = "simulate"
    /\ \E slice \in TestSlices :
       \E test_rows \in {[i \in DOMAIN slice |->
                            [timestamp |-> i, close |-> slice[i][1]]]} :
       \E signals \in {[i \in DOMAIN slice |-> slice[i][2]]} :
       \E sim \in {simulate_trading(test_rows, signals, capital, position,
                                    entry_price)} :
       \E next \in {carried_state(sim.equity)} :
           /\ capital' = next.capital
           /\ position' = next.position
           /\ entry_price' = next.entry_price
           /\ equity_records' = equity_records \o sim.equity
           /\ trades' = trades \o sim.trades
           /\ signal_log' = signal_log \o signals
    /\ pc' = "metrics"
    /\ UNCHANGED <<config, aside, is_fitted, folds, equity_curve, start_date,
                   end_date, current_date, fold_num, results, job_status,
                   calls, sched>>

\* The equity curve is built and _calculate_overall_metrics is called.
CalculateMetrics ==
    /\ pc = "metrics"
    /\ equity_curve' = IF equity_records # <<>> THEN equity_records
                       ELSE equity_curve
    /\ UNCHANGED trades
    /\ UNCHANGED folds
    /\ results' = calculate_overall_metrics(RInt(InitialCapital), capital)
    /\ pc' = "metrics_done"
    /\ UNCHANGED <<config, aside, is_fitted, start_date, end_date, current_date,
                   fold_num, capital, position, entry_price, equity_records,
                   job_status, calls, sched, signal_log>>

MetricsNext ==
    \/ SimulateSlice
    \/ CalculateMetrics

MetricsSpec == MetricsInit /\ [][MetricsNext]_vars

\* ======================================================================
\* Properties
\* ======================================================================
IsEvaluated(e) == e.status = "evaluated"
IsSkipped(e) == e.status = "skipped"
IsUpdate(c) == c.op \in {"fit", "partial_fit"}

\* The loop iterations that reached the trade simulation, in order.
EvaluatedIterations == SelectSeq(sched, IsEvaluated)

\* Fold number n is the first one of the run that was not skipped.
FirstNonSkipped(n) ==
    \A i \in 1..Len(sched) : sched[i].fold < n => IsSkipped(sched[i])

\* Equity points recorded by the first j fold reports.
RECURSIVE EquityEnd(_)
EquityEnd(j) == IF j = 0 THEN 0 ELSE folds[j].test_samples + EquityEnd(j - 1)

\* C1: no lookahead.  In every fold that reached the model, the rows given to
\* fit / partial_fit have train_start <= timestamp < test_start, the rows
\* given to predict / predict_proba have test_start <= timestamp < test_end,
\* so every train row is strictly earlier than every test row of the fold
\* and no row is in both slices.
C1_NoLookahead ==
    \A i \in 1..Len(sched) : \A j \in 1..Len(calls) :
        calls[j].fold = sched[i].fold =>
            /\ IsUpdate(calls[j]) =>
                 \A t \in calls[j].days :
                    sched[i].train_start <= t /\ t < sched[i].test_start
            /\ ~IsUpdate(calls[j]) =>
                 \A t \in calls[j].days :
                    sched[i].test_start <= t /\ t < sched[i].test_end
            /\ \A k \in 1..Len(calls) :
                 (calls[k].fold = calls[j].fold /\ IsUpdate(calls[j])
                    /\ ~IsUpdate(calls[k])) =>
                 /\ \A t \in calls[j].days : \A u \in calls[k].days : t < u
                 /\ calls[j].days \cap calls[k].days = {}

\* A fold was trained on a non-empty slice and predicted on a non-empty one.
C1_Witness ==
    \E j, k \in 1..Len(calls) :
        /\ calls[j].fold = calls[k].fold
        /\ calls[j].op = "fit" /\ calls[k].op = "predict"
        /\ calls[j].days # {} /\ calls[k].days # {}
        /\ \E i \in 1..Len(sched) :
              sched[i].fold = calls[j].fold /\ IsEvaluated(sched[i])

\* C2: position-state carry-over.  The (capital, position, entry_price) an
\* evaluated fold hands to the trade simulation is that of the last equity
\* point of the previous evaluated fold, and (initial_capital, FLAT, 0) for
\* the first evaluated fold.
C2_CarryOver ==
    /\ Len(EvaluatedIterations) = Len(folds)
    /\ \A j \in 1..Len(EvaluatedIterations) :
        LET e == EvaluatedIterations[j]
        IN  IF j = 1
            THEN /\ e.capital = RInt(InitialCapital)
                 /\ e.position = 0
                 /\ e.entry_price = RZero
            ELSE LET last == equity_records[EquityEnd(j - 1)]
                 IN  /\ e.capital = last.capital
                     /\ e.position = last.position
                     /\ e.entry_price = last.entry_price

\* A later fold started LONG with a capital changed by an earlier round trip.
C2_Witness ==
    \E j \in 2..Len(EvaluatedIterations) :
        /\ EvaluatedIterations[j].position = 1
        /\ EvaluatedIterations[j].capital # RInt(InitialCapital)

\* C3 (as claimed): every predict of a fold that is the first non-skipped
\* fold of the run, or that runs with online_learning false, directly
\* follows a successful full fit of the same fold on its train slice.
C3_FullFitBeforePredict ==
    \A j \in 1..Len(calls) :
        (calls[j].op = "predict"
            /\ (FirstNonSkipped(calls[j].fold) \/ ~online_learning)) =>
        /\ j > 1
        /\ calls[j - 1].op = "fit"
        /\ calls[j - 1].fold = calls[j].fold
        /\ calls[j - 1].ok

\* C4 (as claimed): in online mode every predict of a fold after the first
\* non-skipped one directly follows exactly one successful update of the
\* same fold: partial_fit when supported, a full fit otherwise.
C4_OnlineUpdateBeforePredict ==
    \A j \in 1..Len(calls) :
        (calls[j].op = "predict" /\ online_learning
            /\ ~FirstNonSkipped(calls[j].fold)) =>
        /\ j > 1
        /\ calls[j - 1].op =
              (IF supports_partial_fit THEN "partial_fit" ELSE "fit")
        /\ calls[j - 1].fold = calls[j].fold
        /\ calls[j - 1].ok
        /\ Cardinality({k \in 1..Len(calls) :
                          IsUpdate(calls[k]) /\ calls[k].fold = calls[j].fold}) = 1

\* C5: a model call that raises is fatal.  It is the last call of the run:
\* run() has raised, returned no report and recorded no fold report for that
\* fold, no later fold was started, and the job is failed or about to be
\* (its only continuation), never completed.
C5_RaiseIsFatal ==
    /\ \A j \in 1..Len(calls) :
        ~calls[j].ok =>
            /\ j = Len(calls)
            /\ pc = "raised"
            /\ sched[Len(sched)].fold = calls[j].fold
            /\ \A k \in 1..Len(folds) : folds[k].fold # calls[j].fold
    /\ pc = "raised" =>
            /\ ~calls[Len(calls)].ok
            /\ results = None
            /\ job_status \in {"running", "failed"}
            /\ job_status = "running" => ENABLED JobFail /\ ~ENABLED JobComplete

\* A predict_proba raised in a later fold and the job has failed.
C5_Witness ==
    /\ job_status = "failed" /\ pc = "raised"
    /\ calls[Len(calls)].op = "predict_proba"
    /\ Len(folds) >= 1

\* C6 (as claimed): if the position is still LONG after the last evaluated
\* fold, run() closes it at the final available price: the trade log ends
\* with that SELL and final_capital is the capital after it.
C6_ForceCloseAtEnd ==
    (pc = "returned" /\ equity_records # <<>>
        /\ equity_records[Len(equity_records)].position = 1) =>
    /\ trades # <<>>
    /\ trades[Len(trades)].action = "SELL"
    /\ trades[Len(trades)].price = RInt(df[end_date].close)
    /\ results.final_capital = trades[Len(trades)].capital

\* The position state before test row i of the run.
PrevPoint(i) ==
    IF i = 1
    THEN [capital |-> RInt(InitialCapital), position |-> 0,
          entry_price |-> RZero]
    ELSE equity_records[i - 1]

RowBuys(i) == signal_log[i] = 1 /\ PrevPoint(i).position = 0
RowSells(i) == signal_log[i] = -1 /\ PrevPoint(i).position = 1

\* C7: the simulator has exactly two transitions, FLAT+BUY -> LONG and
\* LONG+SELL -> FLAT.  Every other row leaves capital, position and
\* entry_price as they were and appends no trade record (the log holds one
\* record per transition row), and the position is always FLAT or LONG.
C7_TwoTransitionsOnly ==
    /\ position \in {0, 1}
    /\ Len(signal_log) = Len(equity_records)
    /\ \A i \in 1..Len(equity_records) :
        /\ equity_records[i].position \in {0, 1}
        /\ RowBuys(i) => equity_records[i].position = 1
        /\ RowSells(i) => equity_records[i].position = 0
        /\ ~(RowBuys(i) \/ RowSells(i)) =>
              /\ equity_records[i].capital = PrevPoint(i).capital
              /\ equity_records[i].position = PrevPoint(i).position
              /\ equity_records[i].entry_price = PrevPoint(i).entry_price
    /\ Len(trades) =
          Cardinality({i \in 1..Len(equity_records) : RowBuys(i) \/ RowSells(i)})

\* One run saw both transitions and each kind of row that is no transition.
C7_Witness ==
    /\ \E i \in 1..Len(equity_records) : RowBuys(i)
    /\ \E i \in 1..Len(equity_records) : RowSells(i)
    /\ \E i \in 1..Len(equity_records) :
          signal_log[i] = -1 /\ PrevPoint(i).position = 0
    /\ \E i \in 1..Len(equity_records) :
          signal_log[i] = 1 /\ PrevPoint(i).position = 1
    /\ \E i \in 1..Len(equity_records) :
          signal_log[i] = 0 /\ PrevPoint(i).position = 1
    /\ \E i \in 1..Len(equity_records) :
          signal_log[i] = 0 /\ PrevPoint(i).position = 0

\* The timestamps a loop iteration's test window spans.
TestWindow(e) == e.test_start..(e.test_end - 1)

\* Where the schedule has got to: the end of the last test window.
ScheduleEnd ==
    IF sched = <<>> THEN start_date + train_window
    ELSE sched[Len(sched)].test_end

\* C8 (as claimed): when the loop has ended, the test windows of its folds
\* together cover the whole of [start + train_window, end).
C8_WindowsCoverToEnd ==
    pc = "returned" =>
        UNION {TestWindow(sched[i]) : i \in 1..Len(sched)}
            = (start_date + train_window)..(end_date - 1)

\* C8 (amended): the test windows of the folds of the loop, evaluated and
\* skipped together, are contiguous (the first starts at start +
\* train_window, each next one at the previous test_end), each test_window
\* long and ending at or before end, pairwise disjoint, and together cover
\* exactly [start + train_window, last test_end); when the loop ends the
\* tail [last test_end, end) left uncovered is shorter than test_window.
C8_WindowsContiguous ==
    pc \in {"loop", "returned", "raised"} =>
        /\ \A i \in 1..Len(sched) :
            /\ sched[i].test_start =
                  (IF i = 1 THEN start_date + train_window
                   ELSE sched[i - 1].test_end)
            /\ sched[i].test_end = sched[i].test_start + test_window
            /\ sched[i].test_end <= end_date
            /\ \A j \in 1..Len(sched) :
                  i # j => TestWindow(sched[i]) \cap TestWindow(sched[j]) = {}
        /\ UNION {TestWindow(sched[i]) : i \in 1..Len(sched)}
              = (start_date + train_window)..(ScheduleEnd - 1)
        /\ pc = "returned" => end_date - ScheduleEnd < test_window

\* The loop ended after an evaluated fold and left a tail uncovered.
C8_Witness ==
    /\ pc = "returned"
    /\ ScheduleEnd < end_date
    /\ \E i \in 1..Len(sched) : IsEvaluated(sched[i])

SkippedCount == Cardinality({i \in 1..Len(sched) : IsSkipped(sched[i])})

\* C9: for train_window > 0, test_window > 0 and total_span >= train_window,
\* the fold reports recorded by a run plus the folds it skipped number
\* floor((total_span - train_window) / test_window).
C9_FoldCount ==
    (pc = "returned" /\ train_window > 0 /\ test_window > 0
        /\ end_date - start_date >= train_window) =>
    Len(folds) + SkippedCount
        = (end_date - start_date - train_window) \div test_window

\* A run that returned with both fold reports and skipped folds.
C9_Witness ==
    /\ pc = "returned" /\ train_window > 0 /\ test_window > 0
    /\ Len(folds) >= 2 /\ SkippedCount >= 1

\* C10: a loop iteration whose train slice has fewer than 100 rows or whose
\* test slice has fewer than 10 is skipped without error: it calls no model
\* operation, leaves capital, position, entry_price, the trade log, the
\* equity records and the fold reports alone, and advances the loop by
\* exactly test_window.
C10_SkipLeavesStateAlone ==
    [][(pc = "loop" /\ current_date + test_window <= end_date
          /\ (Len(train_data) < MinTrainRows \/ Len(test_data) < MinTestRows))
       => /\ pc' = "loop"
          /\ calls' = calls
          /\ is_fitted' = is_fitted
          /\ capital' = capital
          /\ position' = position
          /\ entry_price' = entry_price
          /\ trades' = trades
          /\ equity_records' = equity_records
          /\ folds' = folds
          /\ current_date' = current_date + test_window
          /\ fold_num' = fold_num + 1]_vars

\* A fold with too few test rows was skipped while a position was open, and
\* the loop went on to the next fold.
C10_Witness ==
    \E i \in 2..(Len(sched) - 1) :
        /\ IsSkipped(sched[i])
        /\ sched[i].train_samples >= MinTrainRows
        /\ sched[i].test_samples < MinTestRows
        /\ sched[i].position = 1
        /\ sched[i + 1].test_start = sched[i].test_start + test_window

\* C11 (as claimed): every fold skipped for lacking the minimum row count is
\* in the fold report list of the run, with a skipped marker set to true.
C11_SkippedFoldsRecorded ==
    pc = "returned" =>
        \A i \in 1..Len(sched) :
            IsSkipped(sched[i]) =>
                \E k \in 1..Len(results.folds) :
                    /\ results.folds[k].fold = sched[i].fold
                    /\ "skipped" \in DOMAIN results.folds[k]
                    /\ results.folds[k].skipped = TRUE

\* C12 (as claimed): with train_window <= 0 or test_window <= 0 the run is
\* rejected before any fold is scheduled: the fold loop is never reached, no
\* fold is scheduled, the model is never called and no report is returned.
C12_InvalidWindowsRejected ==
    (train_window <= 0 \/ test_window <= 0) =>
        /\ pc \in {"constructed", "raised"}
        /\ sched = <<>>
        /\ calls = <<>>
        /\ results = None

\* C13 (as claimed): for a 3-column probability row the signal is BUY when
\* P(class 2) >= buy_threshold, also when P(class 0) >= 1 - sell_threshold
\* holds for the same row (BUY wins ties), SELL when only the latter holds,
\* and HOLD otherwise, for every choice of thresholds.
C13_BuyWinsTies ==
    pc = "signals_done" =>
        \A i \in 1..Len(proba_input) :
            Len(proba_input[i]) = 3 =>
                signal_log[i] =
                    (IF proba_input[i][3] >= buy_threshold THEN 1
                     ELSE IF proba_input[i][1] >= ProbaOne - sell_threshold
                          THEN -1 ELSE 0)

\* The close price is the same on every row of the input.
ConstantPrice == \A d, e \in DOMAIN df : df[d].close = df[e].close

\* The capital a SELL record found before it added its pnl.
CapitalBefore(t) == RSub(t.capital, t.pnl)

\* C14 (as claimed): on a constant-price series every SELL record has pnl 0,
\* whatever fees_bps and slippage_bps are.
C14_ConstantPriceZeroPnl ==
    ConstantPrice =>
        \A k \in 1..Len(trades) : IsSell(trades[k]) => trades[k].pnl = RZero

\* C14 (amended): on a constant-price series every SELL record has
\* pnl = capital * ((1 - c) - (1 + c)) / (1 + c) with c = total_cost_bps /
\* 10000 and capital the capital before the SELL: 0 when fees and slippage
\* are both 0, a loss when their sum is positive and the capital is.
C14_ConstantPricePnl ==
    ConstantPrice =>
        \A k \in 1..Len(trades) :
            IsSell(trades[k]) =>
                /\ trades[k].pnl =
                      RMul(CapitalBefore(trades[k]),
                           Norm(-2 * total_cost_bps, BpsScale + total_cost_bps))
                /\ total_cost_bps = 0 => trades[k].pnl = RZero
                /\ (total_cost_bps > 0 /\ CapitalBefore(trades[k])[1] > 0) =>
                      trades[k].pnl[1] < 0

\* A constant-price run with costs sold a position bought in an earlier fold.
C14_Witness ==
    /\ ConstantPrice /\ total_cost_bps > 0
    /\ \E k \in 2..Len(trades) :
          /\ IsSell(trades[k])
          /\ trades[k].timestamp > trades[k - 1].timestamp
          /\ trades[k].pnl # RZero

\* C15: round trip.  With fees_bps = 0 and slippage_bps = 0 a BUY followed
\* by a SELL at the same price records pnl = 0 and leaves the capital at its
\* value before the BUY.
C15_RoundTripZeroCost ==
    (fees_bps = 0 /\ slippage_bps = 0) =>
        \A k \in 1..(Len(trades) - 1) :
            (trades[k].action = "BUY" /\ IsSell(trades[k + 1])
                /\ trades[k + 1].price = trades[k].price) =>
            /\ trades[k + 1].pnl = RZero
            /\ trades[k + 1].capital = trades[k].capital

\* A free round trip bought on one day and sold at the same price on a later one.
C15_Witness ==
    /\ fees_bps = 0 /\ slippage_bps = 0
    /\ \E k \in 1..(Len(trades) - 1) :
          /\ trades[k].action = "BUY" /\ IsSell(trades[k + 1])
          /\ trades[k + 1].price = trades[k].price
          /\ trades[k].timestamp < trades[k + 1].timestamp

\* C16: the cost is applied exactly once per leg.  Every trade record has
\* the raw close of its row as price; a BUY has cost = price * (1 +
\* total_cost_bps / 10000); a SELL has exit_price = price * (1 -
\* total_cost_bps / 10000) and its pnl is taken against the cost of the BUY
\* record before it, also when that BUY was in an earlier fold; while LONG
\* the carried entry_price is that cost.
C16_CostOncePerLeg ==
    /\ \A k \in 1..Len(trades) :
        LET t == trades[k]
            raw == RInt(df[t.timestamp].close)
        IN  /\ t.price = raw
            /\ t.action = "BUY" =>
                  t.cost = RDiv(RMul(raw, RInt(BpsScale + fees_bps + slippage_bps)),
                                RInt(BpsScale))
            /\ IsSell(t) =>
                  /\ t.exit_price =
                        RDiv(RMul(raw, RInt(BpsScale - fees_bps - slippage_bps)),
                             RInt(BpsScale))
                  /\ k > 1
                  /\ trades[k - 1].action = "BUY"
                  /\ t.pnl = RMul(CapitalBefore(t),
                                  RDiv(RSub(t.exit_price, trades[k - 1].cost),
                                       trades[k - 1].cost))
    /\ position = 1 =>
        /\ trades # <<>>
        /\ trades[Len(trades)].action = "BUY"
        /\ entry_price = trades[Len(trades)].cost

\* With costs, a position bought in one fold was sold in a later fold.
C16_Witness ==
    /\ fees_bps + slippage_bps > 0
    /\ \E k \in 2..Len(trades) : \E i, j \in 1..Len(folds) :
          /\ IsSell(trades[k])
          /\ i < j
          /\ trades[k - 1].timestamp \in folds[i].test_start..(folds[i].test_end - 1)
          /\ trades[k].timestamp \in folds[j].test_start..(folds[j].test_end - 1)

\* The SELL records of the trade log, by position in it.
SellRecords == {k \in 1..Len(trades) : IsSell(trades[k])}
WinRecords == {k \in SellRecords : trades[k].pnl[1] > 0}
LossRecords == {k \in SellRecords : trades[k].pnl[1] < 0}

\* C18: in every aggregate report total_trades is the number of SELL
\* records, win_rate is (SELL records with pnl > 0) / total_trades and lies
\* in [0, 1], winning_trades + losing_trades <= total_trades, and win_rate
\* is exactly 0 when total_trades is 0.
C18_TradeCounts ==
    pc = "metrics_done" =>
        /\ results.total_trades = Cardinality(SellRecords)
        /\ results.winning_trades = Cardinality(WinRecords)
        /\ results.losing_trades = Cardinality(LossRecords)
        /\ results.winning_trades + results.losing_trades <= results.total_trades
        /\ results.win_rate[2] > 0
        /\ results.win_rate[1] * Cardinality(SellRecords)
              = Cardinality(WinRecords) * results.win_rate[2]
        /\ 0 <= results.win_rate[1]
        /\ results.win_rate[1] <= results.win_rate[2]
        /\ results.total_trades = 0 => results.win_rate = RZero

\* A report over a winning, a losing and a break-even round trip.
C18_Witness ==
    /\ pc = "metrics_done"
    /\ results.total_trades = 3
    /\ results.winning_trades = 1
    /\ results.losing_trades = 1

\* The equity values of the curve the report was computed from.
CurveEquity ==
    [i \in 1..Len(equity_curve) |-> equity_curve[i].equity]

NonDecreasing ==
    \A i \in 1..(Len(CurveEquity) - 1) : ~RLt(CurveEquity[i + 1], CurveEquity[i])

\* Point j is a highest point among the first i.
IsPeak(i, j) ==
    j \in 1..i /\ \A k \in 1..i : ~RLt(CurveEquity[j], CurveEquity[k])

\* The relative drop of point i below point j.
Drop(i, j) == RDiv(RSub(CurveEquity[i], CurveEquity[j]), CurveEquity[j])

\* C19: in every aggregate report max_drawdown <= 0; it is 0 exactly when
\* the equity curve never decreases (the empty and the one-point curve
\* included); otherwise it is the least, over the points of the curve, of
\* (equity - running_max) / running_max.
C19_MaxDrawdown ==
    pc = "metrics_done" =>
        /\ results.max_drawdown[1] <= 0
        /\ (results.max_drawdown = RZero) <=> NonDecreasing
        /\ ~NonDecreasing =>
              /\ \E i, j \in 1..Len(CurveEquity) :
                    IsPeak(i, j) /\ results.max_drawdown = Drop(i, j)
              /\ \A i, j \in 1..Len(CurveEquity) :
                    IsPeak(i, j) => ~RLt(Drop(i, j), results.max_drawdown)

\* A curve that rose to a peak after its first point, fell, and did not fall
\* below its first point: the drawdown is measured from the peak.
C19_Witness ==
    /\ pc = "metrics_done"
    /\ results.max_drawdown[1] < 0
    /\ \E i \in 2..Len(CurveEquity) :
          /\ RLt(CurveEquity[1], CurveEquity[i])
          /\ \A k \in 1..Len(CurveEquity) : ~RLt(CurveEquity[k], CurveEquity[1])

\* Zero trade records, the initial capital at every equity point, and a
\* report of no trades, no return, no drawdown and no wins.
NothingTraded ==
    /\ trades = <<>>
    /\ \A i \in 1..Len(equity_records) :
          equity_records[i].capital = RInt(InitialCapital)
    /\ pc = "returned" =>
          /\ results.total_trades = 0
          /\ results.total_return = RZero
          /\ results.max_drawdown = RZero
          /\ results.win_rate = RZero

\* C17 (as claimed): if the model outputs P(HOLD) = 1 for every test row of
\* every fold, the run records zero trade records, capital equals
\* initial_capital at every equity point, and the report has total_trades,
\* total_return, max_drawdown and win_rate all 0.
C17_HoldMeansNoTrades == NothingTraded

\* C17 (amended): the same, for a run with buy_threshold > 0.
C17_HoldMeansNoTradesAboveZero == buy_threshold > 0 => NothingTraded

\* A run with buy_threshold > 0 returned after two folds of certain HOLDs
\* on a series whose price moves.
C17_Witness ==
    /\ pc = "returned" /\ buy_threshold > 0
    /\ Len(folds) >= 2
    /\ ~ConstantPrice
    /\ \A j \in 1..Len(calls) : calls[j].ok

\* C20: the run checks a cooperative early-stop request before starting
\* each fold's fit; once the stop is requested no further fold is fitted
\* or simulated, the fold reports, trades and equity points produced so
\* far are returned unchanged, and the result is marked as partial,
\* distinct from a completed report.
C20_StopHonoured ==
    [][stop_requested =>
          /\ calls' = calls
          /\ signal_log' = signal_log
          /\ folds' = folds
          /\ trades' = trades
          /\ equity_records' = equity_records
          /\ (pc = "loop" /\ pc' = "returned") =>
                 /\ "partial" \in DOMAIN results'
                 /\ job_status' # "completed"]_vars

\* The test rows of the run on which the simulator made a transition, and
\* the row of the k-th trade record.
TransitionRows == {i \in 1..Len(equity_records) : RowBuys(i) \/ RowSells(i)}
RowOfTrade(k) ==
    CHOOSE i \in TransitionRows :
        Cardinality({j \in TransitionRows : j <= i}) = k

\* C23: on a LONG+SELL transition pnl = capital * (exit_price - entry_price)
\* / entry_price, capital becomes capital + pnl and the position FLAT, and
\* the SELL record carries that pnl and the capital after the update; a
\* FLAT+BUY transition leaves capital unchanged and its BUY record carries
\* cost = entry_price.
C23_TransitionArithmetic ==
    \A k \in 1..Len(trades) :
        LET t == trades[k]
            before == PrevPoint(RowOfTrade(k))
            after == equity_records[RowOfTrade(k)]
        IN  /\ IsSell(t) =>
                /\ before.position = 1
                /\ t.pnl = RDiv(RMul(before.capital,
                                     RSub(t.exit_price, before.entry_price)),
                                before.entry_price)
                /\ after.capital = RAdd(before.capital, t.pnl)
                /\ after.position = 0
                /\ t.capital = after.capital
            /\ t.action = "BUY" =>
                /\ before.position = 0
                /\ after.capital = before.capital
                /\ after.position = 1
                /\ t.cost = after.entry_price
                /\ t.capital = before.capital

\* A SELL changed the capital and a later BUY was made with the new capital.
C23_Witness ==
    \E k \in 2..(Len(trades) - 1) :
        /\ IsSell(trades[k])
        /\ trades[k].pnl # RZero
        /\ trades[k].capital # RInt(InitialCapital)
        /\ trades[k + 1].action = "BUY"
        /\ trades[k + 1].capital = trades[k].capital

\* C24: the simulator appends exactly one equity point per test row, in row
\* order and after that row's transition has been applied: equity = capital
\* when FLAT and equity = capital * (1 + (close - entry_price) / entry_price)
\* when LONG; the recorded entry_price is 0 whenever the recorded position
\* is FLAT; and the run's equity curve has as many points as the sum of
\* test_samples over the recorded folds.
C24_EquityPoints ==
    /\ Len(equity_records) = EquityEnd(Len(folds))
    /\ pc = "returned" => Len(equity_curve) = EquityEnd(Len(folds))
    /\ \A j \in 1..Len(folds) :
       \A rows \in {TimeSlice(folds[j].test_start, folds[j].test_end)} :
       \A base \in {EquityEnd(j - 1)} :
          /\ Len(rows) = folds[j].test_samples
          /\ \A r \in 1..Len(rows) :
             \A i \in {base + r} :
             \A point \in {equity_records[i]} :
                /\ point.timestamp = rows[r].timestamp
                /\ point.current_price = RInt(rows[r].close)
                /\ RowBuys(i) => point.position = 1
                /\ RowSells(i) => point.position = 0
    /\ \A point \in {equity_records[i] : i \in 1..Len(equity_records)} :
          /\ point.position = 0 =>
                /\ point.equity = point.capital
                /\ point.entry_price = RZero
          /\ point.position = 1 =>
                point.equity =
                    RMul(point.capital,
                         RAdd(ROne,
                              RDiv(RSub(point.current_price, point.entry_price),
                                   point.entry_price)))

\* A returned run of two folds or more marked an open position away from
\* its capital and recorded a FLAT point right after a LONG one.
C24_Witness ==
    /\ pc = "returned" /\ Len(folds) >= 2
    /\ \E i \in 1..Len(equity_curve) :
          /\ equity_curve[i].position = 1
          /\ equity_curve[i].equity # equity_curve[i].capital
    /\ \E i \in 2..Len(equity_curve) :
          /\ equity_curve[i].position = 0
          /\ equity_curve[i - 1].position = 1

\* C25: for 2-class probability output with sell_threshold < buy_threshold,
\* the signal of a row is BUY iff P(positive) >= buy_threshold, SELL iff
\* P(positive) <= sell_threshold and HOLD otherwise; the output holds
\* exactly one signal per input row, in input order.
C25_BinarySignals ==
    (pc = "signals_done" /\ sell_threshold < buy_threshold) =>
        /\ Len(signal_log) = Len(proba_input)
        /\ \A i \in 1..Len(proba_input) :
            /\ signal_log[i] \in {-1, 0, 1}
            /\ signal_log[i] = 1 <=> proba_input[i][2] >= buy_threshold
            /\ signal_log[i] = -1 <=> proba_input[i][2] <= sell_threshold
            /\ signal_log[i] = 0 <=>
                  (proba_input[i][2] < buy_threshold
                      /\ proba_input[i][2] > sell_threshold)

\* A SELL exactly at the sell threshold in the first row and a BUY exactly
\* at the buy threshold in the second.
C25_Witness ==
    /\ pc = "signals_done" /\ sell_threshold < buy_threshold
    /\ Len(proba_input) = 2
    /\ proba_input[1][2] = sell_threshold /\ signal_log[1] = -1
    /\ proba_input[2][2] = buy_threshold /\ signal_log[2] = 1

\* The carried capital before and after the j-th recorded fold.
CapitalBeforeFold(j) == EvaluatedIterations[j].capital
CapitalAfterFold(j) ==
    IF j < Len(folds) THEN EvaluatedIterations[j + 1].capital ELSE capital

RECURSIVE FoldPnlSum(_)
FoldPnlSum(j) == IF j = 0 THEN RZero ELSE RAdd(folds[j].pnl, FoldPnlSum(j - 1))

\* C26: for every recorded fold, the fold report's pnl equals the carried
\* capital after the fold minus the carried capital before it, so the fold
\* pnls of a run sum to final capital - initial capital; this includes a
\* fold whose first test row closes a position carried over from the
\* previous fold, and a first evaluated fold whose fold number is not 1.
C26_FoldPnlIsCapitalChange ==
    /\ \A j \in 1..Len(folds) :
          folds[j].pnl = RSub(CapitalAfterFold(j), CapitalBeforeFold(j))
    /\ FoldPnlSum(Len(folds)) = RSub(capital, RInt(InitialCapital))

BuyRecords == {k \in 1..Len(trades) : trades[k].action = "BUY"}

RECURSIVE FoldTradesSum(_)
FoldTradesSum(j) == IF j = 0 THEN 0 ELSE folds[j].trades + FoldTradesSum(j - 1)

\* C27: within one run on a fresh engine the trade log accumulated across
\* all folds strictly alternates BUY, SELL, BUY, ... starting with BUY,
\* also across fold boundaries; at every point the number of BUY records
\* minus the number of SELL records equals the current position (0 for
\* FLAT, 1 for LONG), and the sum over folds of the per-fold trade count
\* equals the length of the trade log.  (The balance after a row is the
\* balance before it plus the row's BUY minus its SELL, from 0 before the
\* first row.)
C27_TradesAlternate ==
    /\ \A k \in 1..Len(trades) :
          trades[k].action = (IF k % 2 = 1 THEN "BUY" ELSE "SELL")
    /\ \A k \in 2..Len(trades) : trades[k - 1].timestamp <= trades[k].timestamp
    /\ Cardinality(BuyRecords) - Cardinality(SellRecords) = position
    /\ \A i \in 1..Len(equity_records) :
          equity_records[i].position =
              PrevPoint(i).position + (IF RowBuys(i) THEN 1 ELSE 0)
                  - (IF RowSells(i) THEN 1 ELSE 0)
    /\ FoldTradesSum(Len(folds)) = Len(trades)

\* A position was bought in one fold and sold in a later one, bought again
\* after that, and is open now.
C27_Witness ==
    /\ Len(trades) >= 3 /\ position = 1
    /\ \E i, j \in 1..Len(folds) :
          /\ i < j
          /\ trades[1].timestamp \in folds[i].test_start..(folds[i].test_end - 1)
          /\ trades[2].timestamp \in folds[j].test_start..(folds[j].test_end - 1)

RECURSIVE SellPnlSum(_)
SellPnlSum(k) ==
    IF k = 0 THEN RZero
    ELSE IF IsSell(trades[k]) THEN RAdd(trades[k].pnl, SellPnlSum(k - 1))
    ELSE SellPnlSum(k - 1)

RealizedCapital == RAdd(RInt(InitialCapital), SellPnlSum(Len(trades)))

\* C28: within one run on a fresh engine capital changes only on a SELL
\* transition: the final_capital reported by run() equals initial_capital
\* plus the sum of pnl over all SELL records of the trade log, and the
\* unrealized profit or loss of a position still open at the end is in the
\* last equity point but never in final_capital or total_return.
C28_CapitalIsRealized ==
    /\ capital = RealizedCapital
    /\ \A i \in 1..Len(equity_records) :
          equity_records[i].capital # PrevPoint(i).capital => RowSells(i)
    /\ pc = "returned" =>
          /\ results.final_capital = RealizedCapital
          /\ results.total_return =
                RDiv(SellPnlSum(Len(trades)), RInt(InitialCapital))
          /\ (position = 1 /\ equity_curve # NoCurve) =>
                \A last \in {equity_curve[Len(equity_curve)]} :
                    /\ last.capital = results.final_capital
                    /\ last.equity =
                          RAdd(last.capital,
                               RDiv(RMul(last.capital,
                                         RSub(last.current_price, last.entry_price)),
                                    last.entry_price))

\* A returned run that sold at a profit or loss and ends with an open
\* position whose equity is away from the capital.
C28_Witness ==
    /\ pc = "returned" /\ position = 1
    /\ SellPnlSum(Len(trades)) # RZero
    /\ equity_curve[Len(equity_curve)].equity # results.final_capital

\* C29: run() terminates on every finite input series for every integer
\* train_window_days and test_window_days the constructor accepts: every
\* iteration of the fold loop, evaluated or skipped, strictly increases
\* test_start, so the loop condition test_start + test_window <= end
\* eventually fails.
C29_EveryIterationAdvances ==
    [][(fold_num' # fold_num /\ pc' = "loop") => current_date' > current_date]_vars

\* No call before the j-th fitted the model.
NeverFittedBefore(j) ==
    \A i \in 1..(j - 1) :
        ~(calls[i].op \in {"fit", "partial_fit"} /\ calls[i].ok)

\* C22: model adapter error contract.  partial_fit raises for every model
\* type for which supports_partial_fit() is false and leaves is_fitted, the
\* scaler and feature_names unchanged; predict_proba raises for a
\* regression-task model; predict and predict_proba raise while the model
\* has never been fitted.
C22_AdapterErrors ==
    \A j \in 1..Len(calls) :
        /\ (calls[j].op = "partial_fit" /\ ~supports_partial_fit) =>
              /\ ~calls[j].ok
              /\ calls[j].after = calls[j].before
        /\ (calls[j].op = "predict_proba" /\ model_task = "regression") =>
              ~calls[j].ok
        /\ (calls[j].op \in {"predict", "predict_proba"} /\ NeverFittedBefore(j)) =>
              ~calls[j].ok

\* A fitted gradient boosting regressor with feature names refused
\* partial_fit and then predicted.
C22_Witness ==
    /\ model_type = "gbr" /\ Len(calls) = 3
    /\ calls[1].op = "fit" /\ calls[1].after.feature_names = FrameColumns
    /\ calls[2].op = "partial_fit" /\ ~calls[2].ok
    /\ calls[2].after.is_fitted
    /\ calls[3].op = "predict" /\ calls[3].ok

\* C21: the engine is stateless between invocations.  A second run() on
\* the same engine with the same input and a model that behaves identically
\* returns the same aggregate report as the first; trade records, fold
\* reports and the equity curve of an earlier run are not included in the
\* total_trades, win_rate, folds or max_drawdown of a later run.
C21_SecondRunSameReport ==
    (pc = "returned" /\ earlier_runs # <<>>) =>
        /\ results.total_trades = earlier_runs[1].total_trades
        /\ results.win_rate = earlier_runs[1].win_rate
        /\ results.folds = earlier_runs[1].folds
        /\ results.max_drawdown = earlier_runs[1].max_drawdown
        /\ results = earlier_runs[1]

\* C30: after any sequence of connect, subscribe_to_channel,
\* unsubscribe_from_channel and disconnect calls (including a second
\* connect for a user who is already connected and subscribed), user u is
\* in channel_subscribers[c] if and only if c is in user_channels[u]; in
\* particular a user without an entry in user_channels, as after
\* disconnect(u), is in no channel's subscriber set.
C30_SubscriptionsAgree ==
    \A u \in Users : \A c \in RequestedChannels :
        (c \in DOMAIN channel_subscribers /\ u \in channel_subscribers[c])
            <=> (u \in DOMAIN user_channels /\ c \in user_channels[u])

====
